---- MODULE Spec2Model ----
(***************************************************************************)
(* LorentzSim: a charged particle in a uniform magnetic field.             *)
(*                                                                         *)
(* The model covers the App component (params, isPlaying, simKey), the     *)
(* ControlPanel input handlers and the SimulationCanvas component: its     *)
(* refs (stateRef, paramsRef, prevParamsRef, requestRef, isDragging,       *)
(* lastMousePos), its camera state, its two effects, the RK4 integrator    *)
(* stepPhysics and the requestAnimationFrame loop.                         *)
(*                                                                         *)
(* Numbers.  A JavaScript number is modelled as a fixed-point integer in   *)
(* units of 1/SCALE, rounded to nearest after every multiplication and     *)
(* division, together with the three IEEE specials NaN, +Infinity and      *)
(* -Infinity (signed zeros are not distinguished).  Camera angles and zoom *)
(* are integers in units of 1/CAM_SCALE.                                   *)
(*                                                                         *)
(* React.  A state setter called by a handler re-renders the components    *)
(* and runs the effects whose dependencies changed before the next         *)
(* animation frame callback; each action below therefore contains the      *)
(* handler, the re-render it causes and the effects of that re-render.     *)
(* draw() writes only to the canvas and is not part of the state.          *)
(***************************************************************************)
EXTENDS Integers, Sequences, FiniteSets, TLC

VARIABLES
    params,         \* App: useState<SimulationParams>
    isPlaying,      \* App: useState(false)
    simKey,         \* App: useState(0), the key of SimulationCanvas
    stateRef,       \* SimulationCanvas: useRef<SimulationState>
    paramsRef,      \* SimulationCanvas: useRef(params)
    prevParamsRef,  \* SimulationCanvas: useRef(params)
    camera,         \* SimulationCanvas: useState<CameraState>
    isDragging,     \* SimulationCanvas: useRef(false)
    lastMousePos,   \* SimulationCanvas: useRef({x: 0, y: 0})
    requestRef,     \* SimulationCanvas: useRef<number | null>
    pending,        \* the browser's list of animation frame callbacks
    trail,          \* history variable: every position produced since the mount
    halts,          \* history variable: onStop calls since the last user action
    nInputs         \* history variable: accepted parameter inputs and camera gestures

vars == << params, isPlaying, simKey, stateRef, paramsRef, prevParamsRef, camera,
           isDragging, lastMousePos, requestRef, pending, trail, halts, nInputs >>

(***************************************************************************)
(* Bounds of the model.                                                    *)
(***************************************************************************)
\* integrator steps explored per mount in Spec
MaxSteps == 3
\* SpecTrail starts TrailMargin steps before the trail is full
TrailMargin == 2
\* SpecTrail runs until TrailOverrun steps after the trail is full
TrailOverrun == 3
\* explicit resets (increments of simKey)
MaxResets == 1
\* accepted parameter inputs and camera gestures
MaxInputs == 1

(***************************************************************************)
(* JavaScript numbers.                                                     *)
(***************************************************************************)
SCALE == 100
NaN == 2000000000
Infinity == 1000000000

IsNaN(a) == a = NaN

IsFinite(a) == a # NaN /\ a # Infinity /\ a # -Infinity

Sign(a) == IF a > 0 THEN 1 ELSE IF a < 0 THEN -1 ELSE 0

\* -a
Neg(a) == IF IsNaN(a) THEN NaN ELSE -a

\* Math.abs(a)
Abs(a) == IF IsNaN(a) THEN NaN ELSE IF a < 0 THEN -a ELSE a

\* n / d rounded to the nearest integer, d > 0
RoundDiv(n, d) == IF n >= 0 THEN (2 * n + d) \div (2 * d) ELSE -((2 * (-n) + d) \div (2 * d))

\* a finite result, or the infinity it overflows to
Fin(n) == IF n >= Infinity THEN Infinity ELSE IF n <= -Infinity THEN -Infinity ELSE n

\* a + b
Add(a, b) ==
    IF IsNaN(a) \/ IsNaN(b) THEN NaN
    ELSE IF ~IsFinite(a) THEN (IF b = -a THEN NaN ELSE a)
    ELSE IF ~IsFinite(b) THEN b
    ELSE Fin(a + b)

\* a - b
Sub(a, b) == Add(a, Neg(b))

\* a * b
Mul(a, b) ==
    IF IsNaN(a) \/ IsNaN(b) THEN NaN
    ELSE IF ~IsFinite(a) \/ ~IsFinite(b)
         THEN (IF a = 0 \/ b = 0 THEN NaN ELSE Sign(a) * Sign(b) * Infinity)
    ELSE Fin(RoundDiv(a * b, SCALE))

\* a / b
Div(a, b) ==
    IF IsNaN(a) \/ IsNaN(b) THEN NaN
    ELSE IF ~IsFinite(a) THEN (IF ~IsFinite(b) THEN NaN
                               ELSE IF b < 0 THEN -a ELSE a)
    ELSE IF ~IsFinite(b) THEN 0
    ELSE IF b = 0 THEN (IF a = 0 THEN NaN ELSE Sign(a) * Infinity)
    ELSE Fin(Sign(b) * RoundDiv(a * SCALE, Abs(b)))

\* a > b
Gt(a, b) == ~IsNaN(a) /\ ~IsNaN(b) /\ a > b

\* the number n (an integer literal of the source)
Num(n) == n * SCALE

Vec(a, b, c) == [x |-> a, y |-> b, z |-> c]

(***************************************************************************)
(* Constants of SimulationCanvas.                                          *)
(***************************************************************************)
BOUNDS_LIMIT == Num(320)
TRAIL_LENGTH == 3000
\* 0.05
DT == SCALE \div 20
\* 0.5
HALF == SCALE \div 2

(***************************************************************************)
(* Camera numbers, in units of 1/CAM_SCALE.                                *)
(***************************************************************************)
CAM_SCALE == 1000
\* Math.PI / 2
PI_HALF == 1571
\* the factor 0.005 of handleMouseMove
DRAG_GAIN == 5
\* the factor 0.001 of handleWheel
WHEEL_GAIN == 1
ZOOM_MIN == 100
ZOOM_MAX == 5000

Max(a, b) == IF a >= b THEN a ELSE b
Min(a, b) == IF a <= b THEN a ELSE b


(***************************************************************************)
(* Vector3 arithmetic, written out per component in the source.            *)
(***************************************************************************)
\* { x: v.x * c, y: v.y * c, z: v.z * c }
VScale(v, c) == Vec(Mul(v.x, c), Mul(v.y, c), Mul(v.z, c))

\* { x: v.x + w.x, y: v.y + w.y, z: v.z + w.z }
VAdd(v, w) == Vec(Add(v.x, w.x), Add(v.y, w.y), Add(v.z, w.z))

\* v + (k1 + 2 * k2 + 2 * k3 + k4) / 6, one component
Combine(v, k1, k2, k3, k4) ==
    Add(v, Div(Add(Add(Add(k1, Mul(Num(2), k2)), Mul(Num(2), k3)), k4), Num(6)))

VCombine(v, k1, k2, k3, k4) ==
    Vec(Combine(v.x, k1.x, k2.x, k3.x, k4.x),
        Combine(v.y, k1.y, k2.y, k3.y, k4.y),
        Combine(v.z, k1.z, k2.z, k3.z, k4.z))

ORIGIN == Vec(0, 0, 0)

(***************************************************************************)
(* stepPhysics: the RK4 integrator.                                        *)
(***************************************************************************)
\* a >= b
Ge(a, b) == ~IsNaN(a) /\ ~IsNaN(b) /\ a >= b

\* mutant of OutOfBounds: >= in place of >
OutOfBoundsGe(r) ==
    \/ Ge(Abs(r.x), BOUNDS_LIMIT)
    \/ Ge(Abs(r.y), BOUNDS_LIMIT)
    \/ Ge(Abs(r.z), BOUNDS_LIMIT)

\* mutant of OutOfBounds: the z component is not checked
OutOfBoundsXY(r) ==
    \/ Gt(Abs(r.x), BOUNDS_LIMIT)
    \/ Gt(Abs(r.y), BOUNDS_LIMIT)

\* Math.abs(r.x) > BOUNDS_LIMIT || Math.abs(r.y) > BOUNDS_LIMIT || ...
OutOfBounds(r) ==
    \/ Gt(Abs(r.x), BOUNDS_LIMIT)
    \/ Gt(Abs(r.y), BOUNDS_LIMIT)
    \/ Gt(Abs(r.z), BOUNDS_LIMIT)

\* accel(vel) = (charge / mass) * (vel x bField)
Accel(vel, p) ==
    LET qm     == Div(p.charge, p.mass)
        crossX == Sub(Mul(vel.y, p.bField.z), Mul(vel.z, p.bField.y))
        crossY == Sub(Mul(vel.z, p.bField.x), Mul(vel.x, p.bField.z))
        crossZ == Sub(Mul(vel.x, p.bField.y), Mul(vel.y, p.bField.x))
    IN  Vec(Mul(qm, crossX), Mul(qm, crossY), Mul(qm, crossZ))

\* mutant of PushHistory: the oldest entry is never evicted
PushHistoryNoShift(history, newR) == Append(history, newR)

\* mutant of PushHistory: pop() in place of shift() evicts the newest entry
PushHistoryPop(history, newR) ==
    LET pushed == Append(history, newR)
    IN  IF Len(pushed) > TRAIL_LENGTH THEN SubSeq(pushed, 1, Len(pushed) - 1) ELSE pushed

\* history.push(newR); if (history.length > TRAIL_LENGTH) history.shift()
PushHistory(history, newR) ==
    LET pushed == Append(history, newR)
    IN  IF Len(pushed) > TRAIL_LENGTH THEN Tail(pushed) ELSE pushed

\* mutant of NextTime: = in place of +=
NextTimeAssign(t) == DT

\* stateRef.current.time += DT
NextTime(t) == Add(t, DT)

\* the state after the RK4 step from s under the parameters p
Integrate(s, p) ==
    LET v    == s.velocity
        r    == s.position
        a1   == Accel(v, p)
        k1v  == VScale(a1, DT)
        k1r  == VScale(v, DT)
        v2   == VAdd(v, VScale(k1v, HALF))
        a2   == Accel(v2, p)
        k2v  == VScale(a2, DT)
        k2r  == VScale(v2, DT)
        v3   == VAdd(v, VScale(k2v, HALF))
        a3   == Accel(v3, p)
        k3v  == VScale(a3, DT)
        k3r  == VScale(v3, DT)
        v4   == VAdd(v, k3v)
        a4   == Accel(v4, p)
        k4v  == VScale(a4, DT)
        k4r  == VScale(v4, DT)
        newV == VCombine(v, k1v, k2v, k3v, k4v)
        newR == VCombine(r, k1r, k2r, k3r, k4r)
    IN  [position |-> newR,
         velocity |-> newV,
         history  |-> PushHistory(s.history, newR),
         time     |-> NextTime(s.time)]

\* stepPhysics(): halt is TRUE when onStop() was called
StepPhysics(s, p) ==
    IF OutOfBounds(s.position)
    THEN [halt |-> TRUE, state |-> s]
    ELSE [halt |-> FALSE, state |-> Integrate(s, p)]

(***************************************************************************)
(* The animation frame callback list of the browser.  A handle is the      *)
(* position of the callback in the list; the program only stores a handle  *)
(* in requestRef and passes it back to cancelAnimationFrame, so the        *)
(* renumbering after a callback has run or was cancelled is invisible to   *)
(* it.  requestRef = 0 stands for null and for a handle that names no      *)
(* pending callback any more: cancelling either one does nothing.          *)
(***************************************************************************)
\* mutant of Closure: animate calls stepPhysics whatever isPlaying is
ClosureLive(playing) == [isPlaying |-> TRUE]

\* the closure `animate` of a render: it reads isPlaying of that render
Closure(playing) == [isPlaying |-> playing]

\* requestAnimationFrame(cb): the new list; the handle is its length
RequestAnimationFrame(q, cb) == Append(q, cb)

\* cancelAnimationFrame(h)
CancelAnimationFrame(q, h) ==
    IF h \in 1..Len(q)
    THEN [i \in 1..(Len(q) - 1) |-> IF i < h THEN q[i] ELSE q[i + 1]]
    ELSE q

\* mutant of LoopCleanup: the effect returns no cleanup
LoopCleanupNone(q, ref) == q

\* the cleanup of useEffect[isPlaying, camera]
LoopCleanup(q, ref) == IF ref # 0 THEN CancelAnimationFrame(q, ref) ELSE q

\* useEffect[isPlaying, camera] of a render with the given isPlaying: the
\* cleanup of the previous run, then requestAnimationFrame(animate)
LoopEffect(q, ref, playing) ==
    LET q2 == RequestAnimationFrame(LoopCleanup(q, ref), Closure(playing))
    IN  [pending |-> q2, requestRef |-> Len(q2)]

(***************************************************************************)
(* Mounting SimulationCanvas.                                              *)
(***************************************************************************)
\* useState<SimulationParams>(...) of App
InitialParams ==
    [mass     |-> Num(2),
     charge   |-> Num(1),
     velocity |-> Vec(Num(5), 0, Num(2)),
     bField   |-> Vec(0, 0, Num(2))]

\* mutant of MountState: the velocity of the first render's params
MountStateStale(p) ==
    [position |-> ORIGIN, velocity |-> InitialParams.velocity, history |-> << >>,
     time |-> 0]

\* useRef<SimulationState>({ position: {0,0,0}, velocity: {...params.velocity}, ... })
MountState(p) ==
    [position |-> ORIGIN, velocity |-> p.velocity, history |-> << >>, time |-> 0]

\* useState<CameraState>({ pitch: 0.3, yaw: -Math.PI / 2, zoom: 1.2 })
MountCamera == [pitch |-> 300, yaw |-> -PI_HALF, zoom |-> 1200]

Init ==
    /\ params = InitialParams
    /\ isPlaying = FALSE
    /\ simKey = 0
    /\ stateRef = MountState(InitialParams)
    /\ paramsRef = InitialParams
    /\ prevParamsRef = InitialParams
    /\ camera = MountCamera
    /\ isDragging = FALSE
    /\ lastMousePos = [x |-> 0, y |-> 0]
    /\ pending = << Closure(FALSE) >>
    /\ requestRef = 1
    /\ trail = << >>
    /\ halts = 0
    /\ nInputs = 0

(***************************************************************************)
(* App: playback control.                                                  *)
(***************************************************************************)
\* togglePlay = () => setIsPlaying(!isPlaying); the re-render of the canvas
\* runs useEffect[isPlaying, camera]
TogglePlay ==
    LET loop == LoopEffect(pending, requestRef, ~isPlaying)
    IN  /\ isPlaying' = ~isPlaying
        /\ pending' = loop.pending
        /\ requestRef' = loop.requestRef
        /\ halts' = 0
        /\ UNCHANGED << params, simKey, stateRef, paramsRef, prevParamsRef, camera,
                        isDragging, lastMousePos, trail, nInputs >>

\* resetSim: setSimKey(prev => prev + 1); setIsPlaying(true).  The new key
\* unmounts the canvas (the effect cleanup runs) and mounts a new one.
ResetSim ==
    /\ simKey < MaxResets
    /\ simKey' = simKey + 1
    /\ isPlaying' = TRUE
    /\ stateRef' = MountState(params)
    /\ paramsRef' = params
    /\ prevParamsRef' = params
    /\ camera' = MountCamera
    /\ isDragging' = FALSE
    /\ lastMousePos' = [x |-> 0, y |-> 0]
    /\ LET loop == LoopEffect(LoopCleanup(pending, requestRef), 0, TRUE)
       IN  /\ pending' = loop.pending
           /\ requestRef' = loop.requestRef
    /\ trail' = << >>
    /\ halts' = 0
    /\ UNCHANGED << params, nInputs >>

(***************************************************************************)
(* ControlPanel: parameter inputs.                                         *)
(***************************************************************************)
\* mutant of ParamsEffect: only the x components are compared
ParamsEffectXOnly(newParams) ==
    LET prevV == prevParamsRef.velocity
        newV  == newParams.velocity
    IN  /\ stateRef' = IF prevV.x # newV.x
                       THEN [stateRef EXCEPT !.velocity = newV]
                       ELSE stateRef
        /\ paramsRef' = newParams
        /\ prevParamsRef' = newParams

\* mutant of ParamsEffect: the velocity is copied on every change of params
ParamsEffectAlways(newParams) ==
    /\ stateRef' = [stateRef EXCEPT !.velocity = newParams.velocity]
    /\ paramsRef' = newParams
    /\ prevParamsRef' = newParams

\* useEffect[params] of SimulationCanvas, run with the new params
ParamsEffect(newParams) ==
    LET prevV == prevParamsRef.velocity
        newV  == newParams.velocity
    IN  /\ stateRef' = IF prevV.x # newV.x \/ prevV.y # newV.y \/ prevV.z # newV.z
                       THEN [stateRef EXCEPT !.velocity = newV]
                       ELSE stateRef
        /\ paramsRef' = newParams
        /\ prevParamsRef' = newParams

\* setParams(prev => ({ ...prev, [key]: value }))
SetScalar(p, key, value) == [p EXCEPT ![key] = value]

\* setParams(prev => ({ ...prev, [key]: { ...prev[key], [axis]: value } }))
SetVector(p, key, axis, value) == [p EXCEPT ![key][axis] = value]

\* updateScalar(key, value)
UpdateScalar(key, value) ==
    IF IsNaN(value)
    THEN UNCHANGED vars
    ELSE /\ nInputs < MaxInputs
         /\ nInputs' = nInputs + 1
         /\ params' = SetScalar(params, key, value)
         /\ ParamsEffect(params')
         /\ UNCHANGED << isPlaying, simKey, camera, isDragging, lastMousePos,
                         requestRef, pending, trail, halts >>

\* updateVector(key, axis, value)
UpdateVector(key, axis, value) ==
    IF IsNaN(value)
    THEN UNCHANGED vars
    ELSE /\ nInputs < MaxInputs
         /\ nInputs' = nInputs + 1
         /\ params' = SetVector(params, key, axis, value)
         /\ ParamsEffect(params')
         /\ UNCHANGED << isPlaying, simKey, camera, isDragging, lastMousePos,
                         requestRef, pending, trail, halts >>

(***************************************************************************)
(* SimulationCanvas: the frame loop.                                       *)
(***************************************************************************)
\* One animation frame: the browser takes the first callback off its list
\* and runs it.  animate: if (isPlaying) stepPhysics(); draw();
\* requestRef.current = requestAnimationFrame(animate).  onStop is
\* handleStop = () => setIsPlaying(false): when it changes isPlaying the
\* canvas re-renders and useEffect[isPlaying, camera] runs again.
\* handleStop = () => setIsPlaying(false): the new value of isPlaying
HandleStop == FALSE

\* mutant of Reschedule: the effect does not run again after onStop()
RescheduleStale(q, cb, stopped) ==
    LET again == RequestAnimationFrame(q, cb)
    IN  [pending |-> again, requestRef |-> Len(again)]

\* The end of animate and what follows it: requestRef.current =
\* requestAnimationFrame(animate) with the closure cb that just ran; then,
\* when onStop() changed isPlaying, the re-render of the canvas and
\* useEffect[isPlaying, camera] with isPlaying = false.
Reschedule(q, cb, stopped) ==
    LET again == RequestAnimationFrame(q, cb)
    IN  IF stopped
        THEN LoopEffect(again, Len(again), HandleStop)
        ELSE [pending |-> again, requestRef |-> Len(again)]

Animate(maxSteps) ==
    /\ Len(pending) >= 1
    /\ UNCHANGED << params, simKey, paramsRef, prevParamsRef, camera, isDragging,
                    lastMousePos, nInputs >>
    /\ LET cb      == Head(pending)
           res     == IF cb.isPlaying
                      THEN StepPhysics(stateRef, paramsRef)
                      ELSE [halt |-> FALSE, state |-> stateRef]
           stepped == cb.isPlaying /\ ~res.halt
           loop    == Reschedule(Tail(pending), cb, res.halt /\ isPlaying)
       IN  /\ stepped => stateRef.time < maxSteps * DT
           /\ stateRef' = res.state
           /\ isPlaying' = IF res.halt THEN HandleStop ELSE isPlaying
           /\ pending' = loop.pending
           /\ requestRef' = loop.requestRef
           /\ trail' = IF stepped THEN Append(trail, res.state.position) ELSE trail
           /\ halts' = IF res.halt THEN Min(halts + 1, 2) ELSE halts

(***************************************************************************)
(* SimulationCanvas: camera controls.                                      *)
(***************************************************************************)
\* Math.max(lo, Math.min(hi, a))
Clamp(lo, hi, a) == Max(lo, Min(hi, a))

\* mutant of DragCamera: the pitch is not clamped
DragCameraFree(prev, dx, dy) ==
    [prev EXCEPT !.yaw = prev.yaw + dx * DRAG_GAIN,
                 !.pitch = prev.pitch + dy * DRAG_GAIN]

\* setCamera(prev => ({ ...prev, yaw: prev.yaw + dx * 0.005,
\*                      pitch: clamp(prev.pitch + dy * 0.005) }))
DragCamera(prev, dx, dy) ==
    [prev EXCEPT !.yaw = prev.yaw + dx * DRAG_GAIN,
                 !.pitch = Clamp(-PI_HALF, PI_HALF, prev.pitch + dy * DRAG_GAIN)]

\* setCamera(prev => ({ ...prev, zoom: clamp(prev.zoom - deltaY * 0.001) }))
ZoomCamera(prev, deltaY) ==
    [prev EXCEPT !.zoom = Clamp(ZOOM_MIN, ZOOM_MAX, prev.zoom - deltaY * WHEEL_GAIN)]

\* the re-render after setCamera: useEffect[isPlaying, camera] runs again
CameraChanged(newCamera) ==
    LET loop == LoopEffect(pending, requestRef, isPlaying)
    IN  /\ camera' = newCamera
        /\ pending' = loop.pending
        /\ requestRef' = loop.requestRef

HandleMouseDown(pos) ==
    /\ isDragging' = TRUE
    /\ lastMousePos' = pos
    /\ UNCHANGED << params, isPlaying, simKey, stateRef, paramsRef, prevParamsRef,
                    camera, requestRef, pending, trail, halts, nInputs >>

HandleMouseMove(pos) ==
    IF ~isDragging
    THEN UNCHANGED vars
    ELSE /\ nInputs < MaxInputs
         /\ nInputs' = nInputs + 1
         /\ CameraChanged(DragCamera(camera, pos.x - lastMousePos.x,
                                     pos.y - lastMousePos.y))
         /\ lastMousePos' = pos
         /\ UNCHANGED << params, isPlaying, simKey, stateRef, paramsRef,
                         prevParamsRef, isDragging, trail, halts >>

\* onMouseUp and onMouseLeave
HandleMouseUp ==
    /\ isDragging' = FALSE
    /\ UNCHANGED << params, isPlaying, simKey, stateRef, paramsRef, prevParamsRef,
                    camera, lastMousePos, requestRef, pending, trail, halts, nInputs >>

HandleWheel(deltaY) ==
    /\ nInputs < MaxInputs
    /\ nInputs' = nInputs + 1
    /\ CameraChanged(ZoomCamera(camera, deltaY))
    /\ UNCHANGED << params, isPlaying, simKey, stateRef, paramsRef, prevParamsRef,
                    isDragging, lastMousePos, trail, halts >>

(***************************************************************************)
(* The inputs explored.                                                    *)
(***************************************************************************)
Axes == {"x", "y", "z"}

\* values of the charge and mass fields: 0, 0.5 and an emptied field
ScalarInputs == {0, HALF, NaN}

\* values of a velocity or field component field
VectorInputs(key) == IF key = "velocity" THEN {Num(6400), NaN} ELSE {0, NaN}

\* pointer positions: a drag between them moves by (200, 400) pixels, enough
\* for the pitch to reach either clamp
MousePositions == {[x |-> 0, y |-> 0], [x |-> 200, y |-> 400]}

\* wheel movements: a small one, and one beyond each end of the zoom range
WheelDeltas == {100, 1500, -4000}

(***************************************************************************)
(* The application.                                                        *)
(***************************************************************************)
Next ==
    \/ TogglePlay
    \/ ResetSim
    \/ \E key \in {"mass", "charge"}, value \in ScalarInputs : UpdateScalar(key, value)
    \/ \E key \in {"velocity", "bField"}, axis \in Axes :
          \E value \in VectorInputs(key) : UpdateVector(key, axis, value)
    \/ Animate(MaxSteps)
    \/ \E pos \in MousePositions : HandleMouseDown(pos)
    \/ \E pos \in MousePositions : HandleMouseMove(pos)
    \/ HandleMouseUp
    \/ \E deltaY \in WheelDeltas : HandleWheel(deltaY)

Spec == Init /\ [][Next]_vars

(***************************************************************************)
(* Long runs: the trail is filled past its capacity.  SpecLong plays the   *)
(* mounted simulation, untouched, until TrailMargin steps before the trail *)
(* is full.  SpecTrail starts in the state that run ends in (LongRunEnd    *)
(* is the check of it) and explores playback, resets and parameter inputs  *)
(* from there until TrailOverrun steps past the capacity; a remounted      *)
(* canvas runs for MaxSteps steps.                                         *)
(***************************************************************************)
\* the state after n frames of playback from s under the parameters p
RECURSIVE Frames(_, _, _)
Frames(s, p, n) ==
    IF n = 0 THEN s
    ELSE IF n = 1 THEN StepPhysics(s, p).state
    ELSE CHOOSE t \in {Frames(u, p, n - (n \div 2)) : u \in {Frames(s, p, n \div 2)}} : TRUE

InitTrail ==
    /\ params = InitialParams
    /\ isPlaying = TRUE
    /\ simKey = 0
    /\ stateRef = Frames(MountState(InitialParams), InitialParams,
                         TRAIL_LENGTH - TrailMargin)
    /\ paramsRef = InitialParams
    /\ prevParamsRef = InitialParams
    /\ camera = MountCamera
    /\ isDragging = FALSE
    /\ lastMousePos = [x |-> 0, y |-> 0]
    /\ pending = << Closure(TRUE) >>
    /\ requestRef = 1
    /\ trail = stateRef.history
    /\ halts = 0
    /\ nInputs = 0

NextTrail ==
    \/ TogglePlay
    \/ ResetSim
    \/ \E value \in ScalarInputs : UpdateScalar("mass", value)
    \/ \E value \in VectorInputs("velocity") : UpdateVector("velocity", "z", value)
    \/ Animate(IF simKey = 0 THEN TRAIL_LENGTH + TrailOverrun ELSE MaxSteps)

SpecTrail == InitTrail /\ [][NextTrail]_vars

NextLong ==
    \/ ~isPlaying /\ TogglePlay
    \/ Animate(TRAIL_LENGTH - TrailMargin)

SpecLong == Init /\ [][NextLong]_vars

\* the run of SpecLong ends in the initial state of SpecTrail
LongRunEnd == Len(trail) = TRAIL_LENGTH - TrailMargin => InitTrail

(***************************************************************************)
(* Runs under edited parameters.  SpecLine starts with the simulation      *)
(* mounted and not yet played, after the user has typed values into the    *)
(* mass, charge, velocity z and field z inputs (each of them is accepted   *)
(* by updateScalar or updateVector, and useEffect[params] has copied the   *)
(* velocity into stateRef); it then explores playback and resets.          *)
(***************************************************************************)
\* the parameters after such edits: the mass 0, 0.5 or 2, the charge 0 or 1,
\* the z velocity 2 or 6400, the z field 0 or 2
LineParams ==
    {[mass     |-> m,
      charge   |-> q,
      velocity |-> Vec(Num(5), 0, vz),
      bField   |-> Vec(0, 0, bz)] :
        m \in {0, HALF, Num(2)}, q \in {0, Num(1)},
        vz \in {Num(2), Num(6400)}, bz \in {0, Num(2)}}

InitLine ==
    /\ params \in LineParams
    /\ isPlaying = FALSE
    /\ simKey = 0
    /\ stateRef = MountState(params)
    /\ paramsRef = params
    /\ prevParamsRef = params
    /\ camera = MountCamera
    /\ isDragging = FALSE
    /\ lastMousePos = [x |-> 0, y |-> 0]
    /\ pending = << Closure(FALSE) >>
    /\ requestRef = 1
    /\ trail = << >>
    /\ halts = 0
    /\ nInputs = 0

NextLine ==
    \/ TogglePlay
    \/ ResetSim
    \/ Animate(MaxSteps)

SpecLine == InitLine /\ [][NextLine]_vars

(***************************************************************************)
(* Properties.                                                             *)
(***************************************************************************)
\* some component lies beyond the 320 unit limit
Exceeds(r) ==
    \E c \in Axes : r[c] # NaN /\ (r[c] > 320 * SCALE \/ r[c] < -(320 * SCALE))

FiniteVec(r) == \A c \in Axes : IsFinite(r[c])

\* the state of a simulation that has not run, with velocity v
FreshState(v) ==
    [position |-> [x |-> 0, y |-> 0, z |-> 0], velocity |-> v, history |-> << >>,
     time |-> 0]

\* every pending frame callback belongs to a render with isPlaying = false
AllStopped(q) == \A i \in 1..Len(q) : ~q[i].isPlaying

\* C1: an explicit reset (simKey changes), from any state, leaves the
\* simulation state at position (0,0,0), velocity = the current
\* params.velocity, empty history and time 0.
C1_ResetState ==
    [][simKey' # simKey => stateRef' = FreshState(params'.velocity)]_vars

\* C1 witness: a reset was made after the velocity was edited
C1_Witness ==
    /\ simKey = 1
    /\ params.velocity # InitialParams.velocity
    /\ stateRef = FreshState(params.velocity)
    /\ isPlaying

C3_OtherParamsLive ==
    [][(params' # params /\ params'.velocity = params.velocity)
         => (stateRef' = stateRef /\ paramsRef' = params')]_vars

\* C3 witness: the mass was changed after the first step, and the state is
\* still the one that step produced under the initial mass
C3_Witness ==
    /\ simKey = 0
    /\ Len(trail) = 1
    /\ paramsRef.mass = HALF
    /\ params.velocity = InitialParams.velocity
    /\ stateRef = Integrate(FreshState(InitialParams.velocity), InitialParams)

\* C4: a halt (onStop) happens only on an out-of-bounds position, it is the
\* first one since playback was last started, it leaves playback inactive in
\* App and in every pending frame callback, and a frame that runs while
\* playback is stopped changes neither the simulation state nor halts again.
C4_HaltOnce ==
    [][/\ halts' > halts =>
            /\ Exceeds(stateRef.position)
            /\ halts' = 1
            /\ ~isPlaying'
            /\ AllStopped(pending')
       /\ (~isPlaying /\ Animate(MaxSteps)) => (stateRef' = stateRef /\ halts' = halts)
      ]_vars

\* C4 witness: halted once out of bounds, playback stopped
C4_Witness ==
    /\ halts = 1
    /\ ~isPlaying
    /\ AllStopped(pending)
    /\ Exceeds(stateRef.position)

\* C5: a frame that invokes the integrator (its closure is playing) signals
\* halt and leaves position, velocity, history and time unchanged when some
\* position component exceeds 320, and otherwise does not signal halt and
\* produces the next state.  (Such a frame always changes some variable.)
C5_HaltIffExceeds ==
    [][(vars' # vars /\ Animate(MaxSteps) /\ Head(pending).isPlaying) =>
         IF Exceeds(stateRef.position)
         THEN halts' = halts + 1 /\ ~isPlaying' /\ stateRef' = stateRef
         ELSE halts' = halts /\ isPlaying' = isPlaying
              /\ stateRef'.time = stateRef.time + DT
              /\ Len(trail') = Len(trail) + 1
      ]_vars

\* C5 witness: the integrator was invoked at z = 640 and halted there; the
\* step before it ran from z = 320, which is not beyond the limit
C5_Witness ==
    /\ halts = 1
    /\ stateRef.position.z = 640 * SCALE
    /\ stateRef.time = 2 * DT
    /\ Len(trail) = 2
    /\ trail[1].z = 320 * SCALE

\* C6 as claimed: every (finite) position component is within the limit.
C6_PositionWithinLimit ==
    FiniteVec(stateRef.position) =>
        \A c \in Axes : Abs(stateRef.position[c]) <= 320 * SCALE

\* C6 amended: a position beyond the limit is the one the last step
\* produced, and every position before it in the run was within the limit:
\* the state left visible after a halt is the first out-of-bounds state.
C6_FirstOutOfBounds ==
    Exceeds(stateRef.position) =>
        /\ Len(trail) >= 1
        /\ trail[Len(trail)] = stateRef.position
        /\ \A i \in 1..(Len(trail) - 1) : ~Exceeds(trail[i])

\* C6 witness: halted and left at a finite position beyond the limit
C6_Witness ==
    /\ Exceeds(stateRef.position)
    /\ FiniteVec(stateRef.position)
    /\ ~isPlaying
    /\ halts = 1
    /\ Len(trail) >= 2

\* C7: history.length is at most 3000 in every reachable state.
C7_HistoryBounded == Len(stateRef.history) <= 3000

\* C7 witness: more than 3000 steps were made and the history is full
C7_Witness ==
    /\ Len(trail) > 3000
    /\ Len(stateRef.history) = 3000

\* C8: the history is the sequence of positions produced since the mount,
\* oldest first, cut to the most recent 3000: after n > 3000 steps its
\* length is 3000, entry i is the position of step n - 3000 + i (counting
\* from 1) and the last entry is the current position.
C8_HistoryFifo ==
    LET n == Len(trail)
        h == stateRef.history
    IN  /\ n <= 3000 => h = trail
        /\ n > 3000 =>
              /\ Len(h) = 3000
              /\ \A i \in 1..3000 : h[i] = trail[n - 3000 + i]
        /\ n >= 1 => h[Len(h)] = stateRef.position

\* C8 witness: two entries were evicted, the oldest retained one is the
\* position of the third step
C8_Witness ==
    /\ Len(trail) = 3002
    /\ Len(stateRef.history) = 3000
    /\ stateRef.history[1] = trail[3]
    /\ stateRef.history[1] # trail[1]

\* C9 as claimed: params.mass is strictly positive in every reachable state.
C9_MassPositive == params.mass > 0 /\ paramsRef.mass > 0

\* C10 as claimed: a reset, a play/pause or halt, a parameter change and an
\* integrator step leave the camera unchanged, and yaw and pitch change only
\* while the pointer button is held.
C10_CameraOnlyByGestures ==
    [][/\ (simKey' # simKey \/ isPlaying' # isPlaying \/ params' # params
             \/ stateRef' # stateRef) => camera' = camera
       /\ (camera'.yaw # camera.yaw \/ camera'.pitch # camera.pitch) => isDragging
      ]_vars

\* C10 without the reset: every step that keeps simKey obeys the claim.
C10_CameraOnlyByGesturesOrRemount ==
    [][simKey' = simKey =>
         /\ (isPlaying' # isPlaying \/ params' # params \/ stateRef' # stateRef)
               => camera' = camera
         /\ (camera'.yaw # camera.yaw \/ camera'.pitch # camera.pitch) => isDragging
      ]_vars

\* the ranges of pitch and zoom, in units of 1/1000
CameraInRange(c) ==
    /\ -1571 <= c.pitch /\ c.pitch <= 1571
    /\ 100 <= c.zoom /\ c.zoom <= 5000

\* C11: after any sequence of drag and wheel gestures the pitch is within
\* [-pi/2, pi/2] and the zoom within [0.1, 5]; the yaw is not clamped: it
\* changes only in a drag, by 0.005 times the horizontal pointer movement.
C11_CameraClamped ==
    [][/\ CameraInRange(camera)
       /\ CameraInRange(camera')
       /\ (simKey' = simKey /\ camera'.yaw # camera.yaw) =>
             /\ isDragging
             /\ camera'.yaw - camera.yaw = 5 * (lastMousePos'.x - lastMousePos.x)
      ]_vars

\* C11 witness: a drag by (-200, -400) from the mounted camera: the pitch
\* 0.3 - 2.0 was clamped to -pi/2, the yaw went to -pi/2 - 1.0 unclamped
C11_Witness ==
    /\ simKey = 0
    /\ camera.pitch = -1571
    /\ camera.yaw = -1571 - 1000
    /\ camera.zoom = 1200
    /\ lastMousePos = [x |-> 0, y |-> 0]

\* C12: along a run without a reset the time never decreases: a successful
\* integrator step (the only step that adds a position to the trail)
\* increases it by exactly 0.05, and every other step (an aborted
\* out-of-bounds step, a paused frame, a parameter change, a camera gesture,
\* play/pause) leaves it unchanged.
C12_TimeMonotone ==
    [][simKey' = simKey =>
         /\ stateRef'.time >= stateRef.time
         /\ Len(trail') > Len(trail) => stateRef'.time = stateRef.time + 5
         /\ Len(trail') = Len(trail) => stateRef'.time = stateRef.time
      ]_vars

\* C12 witness: three steps were made, a parameter was changed or the camera
\* moved, and playback is paused: the time is 0.15
C12_Witness ==
    /\ simKey = 0
    /\ Len(trail) = 3
    /\ stateRef.time = 15
    /\ nInputs = 1
    /\ ~isPlaying
    /\ halts = 0

\* no force acts: the field or the charge is zero
ZeroForce(p) == p.charge = 0 \/ (p.bField.x = 0 /\ p.bField.y = 0 /\ p.bField.z = 0)

\* the position r is v * (k * 0.05), exactly: 20 r = k v
OnLine(r, v, k) == \A c \in Axes : IsFinite(r[c]) /\ 20 * r[c] = k * v[c]

\* the state lies on the straight line of the velocity v after k steps
StraightLine(s, v, k) ==
    /\ s.velocity = v
    /\ OnLine(s.position, v, k)
    /\ Len(s.history) = k
    /\ \A i \in 1..Len(s.history) : OnLine(s.history[i], v, i)

\* C13 as claimed: for a zero field or a zero charge every step leaves the
\* velocity unchanged and advances the position by velocity * 0.05, so after
\* k steps from a mount the position is velocity * (k * 0.05) and so is the
\* k-th entry of the history.
C13_StraightLine ==
    ZeroForce(params) => StraightLine(stateRef, params.velocity, Len(trail))

\* C13 for a nonzero mass: the same statement, for the runs whose mass is
\* not 0.
C13_StraightLineNonzeroMass ==
    (ZeroForce(params) /\ params.mass # 0)
        => StraightLine(stateRef, params.velocity, Len(trail))

\* C13, nonzero mass: three steps along the line under a zero field
C13_NonzeroMassWitness ==
    /\ params.bField = Vec(0, 0, 0)
    /\ params.charge = Num(1)
    /\ params.mass = HALF
    /\ Len(trail) = 3
    /\ stateRef.position = Vec(75, 0, 30)

\* C14: while playback is inactive no frame runs the integrator: position,
\* velocity, history and time change only by a reset or (the velocity) by a
\* velocity input; and a step is never applied in part: when position,
\* history or time changes without a reset, the time has advanced by 0.05,
\* the new position is the new last entry of the history and it is the one
\* position added to the trail.
C14_PauseSkipsIntegrator ==
    [][/\ (~isPlaying /\ simKey' = simKey /\ params'.velocity = params.velocity)
             => stateRef' = stateRef
       /\ (/\ simKey' = simKey
           /\ \/ stateRef'.position # stateRef.position
              \/ stateRef'.history # stateRef.history
              \/ stateRef'.time # stateRef.time)
             => /\ isPlaying
                /\ stateRef'.time = stateRef.time + 5
                /\ stateRef'.history # stateRef.history
                /\ stateRef'.history[Len(stateRef'.history)] = stateRef'.position
                /\ trail' = Append(trail, stateRef'.position)
      ]_vars

\* C14 witness: paused by the user after two steps, the pending frame
\* callback is one that skips the integrator
C14_Witness ==
    /\ simKey = 0
    /\ ~isPlaying
    /\ halts = 0
    /\ Len(trail) = 2
    /\ stateRef.time = 10
    /\ pending = << [isPlaying |-> FALSE] >>

\* C15: at most one animation frame callback is pending in every reachable
\* state, across play/pause, camera gestures, halts and reset remounts, and
\* requestRef holds its handle: a display frame runs one callback, hence at
\* most one integrator step.
C15_OnePending ==
    /\ Len(pending) <= 1
    /\ requestRef = Len(pending)

\* C15 witness: after a reset remount the simulation stepped, the camera was
\* moved and playback was paused; one callback is pending
C15_Witness ==
    /\ simKey = 1
    /\ Len(trail) >= 1
    /\ camera # MountCamera
    /\ ~isPlaying
    /\ halts = 0
    /\ Len(pending) = 1

====
